---- MODULE Spec2Model ----
(***************************************************************************)
(* Model of the tTFL terminal dashboard (src/src/app.rs): the App state,   *)
(* the key-event loop of run_app, and the station lookup run by Enter in   *)
(* Insert mode (cache hit / cache miss aggregation).                        *)
(*                                                                         *)
(* Strings that are only compared for equality (line ids, stop ids) are    *)
(* TLA+ strings.  The station name is the sequence of typed characters.    *)
(* Platform names are sequences of digits, because the code orders them    *)
(* (BTreeMap<String,_>) and the order is lexicographic on the characters.  *)
(* f64 coordinates are kept in tenths (12.5 is 125).                        *)
(* Option<T> is a sequence: None is <<>>, Some(x) is <<x>>.                *)
(***************************************************************************)
EXTENDS Integers, Sequences, FiniteSets, TLC

VARIABLES
    app,        \* the App struct (app.rs 23-38)
    pc,         \* where run_app is: at the loop top or suspended on an .await
    iter,       \* lines the `for u_line in &unique_lines` iterator has not yielded yet
    u_line,     \* the line of the iteration whose route request is outstanding
    requests,   \* requests issued by the station lookup in progress / last completed
    resp,       \* the response the last .await of start-up or of a lookup resumed with
    kind,       \* which branch the last station lookup took: "none", "hit", "miss"
    lookups,    \* number of station names submitted so far
    answered,   \* how many of `requests` have been answered
    frame,      \* how the last terminal.draw ended: "none" before the first, "drawn",
                \* or the panic it ran into
    routes      \* line -> orderedLineRoutes received for it by the lookup in progress / last

vars == <<app, pc, iter, u_line, requests, resp, kind, lookups, answered, frame, routes>>

----------------------------------------------------------------------------
\* Bounds of the model

MaxLookups == 3
MaxInputLen == 1
MaxArrivals == 2
\* the largest station of DrawSpec
MaxLines == 6
MaxPlatforms == 6

----------------------------------------------------------------------------
\* Values

None == <<>>
Some(x) == <<x>>
Unwrap(o) == o[1]

Chars == {"a"}

NoLine == ""

\* impl Default for StopPoint
DefaultStopPoint == [zone |-> "", id |-> "", name |-> ""]

OxfordCircus == [zone |-> "1", id |-> "940GZZLUOXC", name |-> "Oxford Circus"]
Victoria == [zone |-> "1", id |-> "940GZZLUVIC", name |-> "Victoria"]

\* platform names "1", "2", "10" as digit sequences
P1 == <<1>>
P2 == <<2>>
P10 == <<1, 0>>

\* struct Arrival: the two fields the lookup reads
MkArrival(l, p) == [lineId |-> l, platformName |-> p]

\* arrival boards the upstream API can answer with; a response is the first
\* 0..MaxArrivals predictions of one of them
ArrivalBoards ==
    { << MkArrival("victoria", P2), MkArrival("victoria", P10), MkArrival("bakerloo", P1) >>,
      << MkArrival("bakerloo", P1), MkArrival("victoria", P10), MkArrival("victoria", P2) >>,
      << MkArrival("victoria", P2), MkArrival("victoria", P2), MkArrival("bakerloo", P1) >> }

ArrivalLists ==
    { SubSeq(b, 1, IF n < Len(b) THEN n ELSE Len(b)) : b \in ArrivalBoards, n \in 0..MaxArrivals }

\* struct Route: naptanIds of the two directions of a line
RouteOut == <<"940GZZLUOXC", "940GZZLUVIC", "940GZZLUBST">>
RouteBack == <<"940GZZLUVIC", "940GZZLUOXC">>

\* struct StopPointResponse.matches: Vec<Option<StopPoint>>
MatchLists ==
    { <<>>, <<Some(OxfordCircus)>>, <<Some(Victoria)>>,
      <<Some(OxfordCircus), Some(Victoria)>>, <<None, Some(OxfordCircus)>> }

\* struct RouteResponse.orderedLineRoutes
RouteLists == { <<>>, <<RouteOut>>, <<RouteOut, RouteBack>> }

\* Vec<Line> of the line status call
\* struct Line: id, name and lineStatuses: Vec<Option<LineStatus>>
MkLine(id, name) ==
    [id |-> id, name |-> name, lineStatuses |-> << Some([statusSeverity |-> 10]) >>]

StatusList == << MkLine("victoria", "Victoria"), MkLine("bakerloo", "Bakerloo"),
                 MkLine("central", "Central"), MkLine("circle", "Circle"),
                 MkLine("district", "District"), MkLine("jubilee", "Jubilee"),
                 MkLine("metropolitan", "Metropolitan"), MkLine("northern", "Northern"),
                 MkLine("piccadilly", "Piccadilly") >>

\* A decoded response, or the failure of send / json (the .unwrap() panics)
Ok(k, b) == [kind |-> k, ok |-> TRUE, body |-> b]
Failed(k) == [kind |-> k, ok |-> FALSE, body |-> <<>>]
NoResponse == [kind |-> "none", ok |-> TRUE, body |-> <<>>]

SearchResponses == { Ok("search", m) : m \in MatchLists } \cup { Failed("search") }
ArrivalsResponses == { Ok("arrivals", a) : a \in ArrivalLists } \cup { Failed("arrivals") }
RouteResponses == { Ok("route", r) : r \in RouteLists } \cup { Failed("route") }
StatusResponses == { Ok("status", StatusList), Failed("status") }

\* the request shapes (the formatted URLs of lines 192, 279, 308, 321, 356)
StatusReq == [call |-> "status", arg |-> <<>>]
SearchReq(name) == [call |-> "search", arg |-> name]
ArrivalsReq(id) == [call |-> "arrivals", arg |-> id]
RouteReq(line) == [call |-> "route", arg |-> line]

----------------------------------------------------------------------------
\* Maps (BTreeMap / HashMap) are functions; the keys are the DOMAIN

EmptyMap == <<>>

MapInsert(m, k, v) ==
    [x \in (DOMAIN m) \cup {k} |-> IF x = k THEN v ELSE m[x]]

\* map.entry(k).or_insert(v)
EntryOrInsert(m, k, v) ==
    IF k \in DOMAIN m THEN m ELSE MapInsert(m, k, v)

----------------------------------------------------------------------------
\* String order (Ord for String: lexicographic on the characters)

RECURSIVE LexLess(_, _)
LexLess(a, b) ==
    IF Len(b) = 0 THEN FALSE
    ELSE IF Len(a) = 0 THEN TRUE
    ELSE IF a[1] /= b[1] THEN a[1] < b[1]
    ELSE LexLess(Tail(a), Tail(b))

\* iteration of a BTreeMap's keys: ascending key order
RECURSIVE BTreeKeysInOrder(_)
BTreeKeysInOrder(S) ==
    IF S = {} THEN <<>>
    ELSE LET m == CHOOSE x \in S : \A y \in S : x = y \/ LexLess(x, y)
         IN  <<m>> \o BTreeKeysInOrder(S \ {m})

----------------------------------------------------------------------------
\* impl Default for StopTimetable
DefaultStopTimetable ==
    [ stop_point |-> None,
      unique_lines |-> {},
      unique_platforms |-> EmptyMap,
      arrivals |-> <<>>,
      live_maps |-> EmptyMap,
      station_nodes |-> EmptyMap ]

\* App::new
AppNew ==
    [ tab_titles |-> <<"Line Status", "Timetable">>,
      tab_index |-> 0,
      input |-> <<>>,
      input_mode |-> "Normal",
      lineNames |-> <<>>,
      lineData |-> <<>>,
      focus |-> None,
      line_selected |-> Some(0),
      lines_tree_size |-> Some(0),
      this_station_name |-> <<>>,
      this_StopTimetable |-> DefaultStopTimetable,
      line_cache |-> EmptyMap,
      stop_cache |-> EmptyMap ]

Init ==
    /\ app = AppNew
    /\ pc = "boot"
    /\ iter = {}
    /\ u_line = NoLine
    /\ requests = <<StatusReq>>
    /\ resp = NoResponse
    /\ kind = "none"
    /\ lookups = 0
    /\ answered = 0
    /\ frame = "none"
    /\ routes = EmptyMap

----------------------------------------------------------------------------
----------------------------------------------------------------------------
\* ui.rs.  A draw either completes ("drawn") or panics; the operators give the set
\* of ways it can end, more than one only where the HashSet order of the lines
\* decides which panic comes first.

\* ui.rs 115-123 and 152-160: the number of constraints chosen for n rows or
\* columns, which is the number of Rects that Layout::split returns
ConstraintsFor(n) == IF n = 0 THEN 1 ELSE IF n <= 5 THEN n ELSE 3

\* ui.rs 378-460: a 3 x 3 grid filled by q.pop().unwrap(), reading lineStatuses[0]
draw_dashboard(a) ==
    IF Len(a.lineData) < 3 * 3 THEN {"dashboard_pop_none"}
    ELSE IF \E i \in (Len(a.lineData) - 3 * 3 + 1)..Len(a.lineData) :
                a.lineData[i].lineStatuses = <<>>
         THEN {"dashboard_no_status"}
         ELSE {"drawn"}

\* ui.rs 132-266, one turn of `for line in &unique_lines` once rows[row_count] was
\* there: unique_platforms[line] (151), cols[col_count] for each platform (174),
\* station_nodes[line][0] and [1] (239, 254)
DrawLine(st, line) ==
    IF line \notin DOMAIN st.unique_platforms THEN "no_platforms_entry"
    ELSE IF Len(st.unique_platforms[line]) > ConstraintsFor(Len(st.unique_platforms[line]))
         THEN "col_out_of_range"
    ELSE IF line \notin DOMAIN st.station_nodes THEN "no_station_nodes_entry"
    ELSE IF Len(st.station_nodes[line]) < 2 THEN "no_station_nodes_list"
    ELSE "drawn"

\* ui.rs 86-270
draw_timetable(a) ==
    LET st == a.this_StopTimetable
        rows == ConstraintsFor(Cardinality(st.unique_lines))
        bad == { l \in st.unique_lines : DrawLine(st, l) /= "drawn" }
        \* a line that cannot be drawn may come first; rows[row_count] fails on
        \* turn number `rows` if the lines before it were drawn
        panics == { DrawLine(st, l) : l \in bad }
                    \cup (IF /\ Cardinality(st.unique_lines) > rows
                              /\ Cardinality(st.unique_lines \ bad) >= rows
                           THEN {"row_out_of_range"} ELSE {})
    IN  IF st.arrivals = <<>> \/ panics = {} THEN {"drawn"} ELSE panics

\* ui.rs 13-84
ui(a) ==
    IF a.tab_index = 0 THEN draw_dashboard(a)
    ELSE IF a.tab_index = 1 THEN draw_timetable(a)
    ELSE {"unreachable"}

----------------------------------------------------------------------------
\* an .await on a response is pending
Awaiting == {"boot", "refresh", "search", "arrivals", "route", "hit_arrivals"}

\* One transition of run_app: every variable gets its next value.  A step that
\* comes back to the loop top runs terminal.draw (line 201) before the next event
\* is read, and a panic in the draw ends the process.  `answered` and `routes`
\* record the exchange: a new lookup starts them afresh, a step taken from an
\* .await of the lookup has received the response rs.
Goto(a, p, it, ul, rq, rs, kd, lk) ==
    /\ app' = a
    /\ IF p = "loop"
       THEN \E f \in ui(a) :
               /\ frame' = f
               /\ pc' = IF f = "drawn" THEN "loop" ELSE "panicked"
       ELSE frame' = frame /\ pc' = p
    /\ iter' = it
    /\ u_line' = ul
    /\ requests' = rq
    /\ resp' = rs
    /\ kind' = kd
    /\ lookups' = lk
    /\ answered' = IF lk /= lookups THEN 0
                   ELSE IF pc \in Awaiting \ {"refresh"} THEN answered + 1
                   ELSE answered
    /\ routes' = IF lk /= lookups THEN EmptyMap
                 ELSE IF pc = "route" /\ rs.ok THEN MapInsert(routes, u_line, rs.body)
                 ELSE routes

\* a failed .unwrap() or an index out of range: the process aborts where it is
Panic(a, rs) == Goto(a, "panicked", iter, u_line, requests, rs, kind, lookups)

\* the handler returns and the loop draws and reads again
Handled(a) == Goto(a, "loop", iter, u_line, requests, resp, kind, lookups)

\* Faulty variant of AtLoop: key events are taken while a response is awaited
AtLoopOrAwaiting(mode) ==
    pc \in {"loop", "search", "arrivals", "route", "hit_arrivals"} /\ app.input_mode = mode

\* event::read (line 203) is reached only from the loop top, after the draw
AtLoop(mode) == pc = "loop" /\ app.input_mode = mode

----------------------------------------------------------------------------
\* Start-up, lines 189-197

LoadStatus(a, result) ==
    LET names == [i \in DOMAIN result |-> result[i].name]
    IN  [a EXCEPT !.lineNames = names,
                  !.lineData = result,
                  !.line_cache = MapInsert(@, "lineNames", names)]

Boot ==
    /\ pc = "boot"
    /\ \E r \in StatusResponses :
          IF ~r.ok THEN Panic(app, r)
          ELSE Goto(LoadStatus(app, r.body), "loop", iter, u_line, requests, r, kind, lookups)

----------------------------------------------------------------------------
\* Normal mode, lines 205-261

\* Faulty variant of next: no wrap-around
nextWithoutWrap(a) == [a EXCEPT !.tab_index = a.tab_index + 1]

\* App::next
next(a) == [a EXCEPT !.tab_index = (a.tab_index + 1) % Len(a.tab_titles)]

\* App::previous
previous(a) ==
    IF a.tab_index > 0 THEN [a EXCEPT !.tab_index = a.tab_index - 1]
    ELSE [a EXCEPT !.tab_index = Len(a.tab_titles) - 1]

KeyRight == AtLoop("Normal") /\ Handled(next(app))

KeyLeft == AtLoop("Normal") /\ Handled(previous(app))

KeyI ==
    /\ AtLoop("Normal")
    /\ Handled([app EXCEPT !.input_mode = "Insert", !.focus = Some("InputBlock")])

KeyQ ==
    /\ AtLoop("Normal")
    /\ Goto(app, "quit", iter, u_line, requests, resp, kind, lookups)

\* 'r': the status request is sent and awaited
KeyR ==
    /\ AtLoop("Normal")
    /\ Goto(app, "refresh", iter, u_line, requests, resp, kind, lookups)

RefreshStatus(a, result) ==
    [a EXCEPT !.lineNames = a.line_cache["lineNames"], !.lineData = result]

RecvRefresh ==
    /\ pc = "refresh"
    /\ \E r \in StatusResponses :
          IF ~r.ok THEN Panic(app, r)
          ELSE Goto(RefreshStatus(app, r.body), "loop", iter, u_line, requests, resp,
                    kind, lookups)

KeyEscNormal == AtLoop("Normal") /\ Handled([app EXCEPT !.focus = None])

\* Option<usize> comparison: None is below every Some
OptGreater(x, y) == x /= None /\ (y = None \/ Unwrap(x) > Unwrap(y))

KeyJ ==
    /\ AtLoop("Normal")
    /\ IF app.focus = Some("LinesBlock")
          /\ OptGreater(app.lines_tree_size, Some(Unwrap(app.line_selected) + 1))
       THEN Handled([app EXCEPT !.line_selected = Some(Unwrap(app.line_selected) + 1)])
       ELSE Handled(app)

KeyK ==
    /\ AtLoop("Normal")
    /\ IF app.focus = Some("LinesBlock") /\ app.line_selected /= Some(0)
       THEN Handled([app EXCEPT !.line_selected = Some(Unwrap(app.line_selected) - 1)])
       ELSE Handled(app)

\* any other key in Normal mode, or an event that is not a key
KeyOtherNormal == AtLoop("Normal") /\ Handled(app)

----------------------------------------------------------------------------
\* Insert mode other than Enter, lines 425-435

KeyChar ==
    /\ AtLoop("Insert")
    /\ Len(app.input) < MaxInputLen
    /\ \E c \in Chars : Handled([app EXCEPT !.input = Append(@, c)])

KeyBackspace ==
    /\ AtLoop("Insert")
    /\ Handled([app EXCEPT !.input = IF Len(@) = 0 THEN @ ELSE SubSeq(@, 1, Len(@) - 1)])

\* Faulty variant of KeyEscInsert: leaving Insert mode also clears the timetable
KeyEscInsertClearing ==
    /\ AtLoop("Insert")
    /\ Handled([app EXCEPT !.input_mode = "Normal", !.focus = None,
                           !.this_StopTimetable = DefaultStopTimetable])

KeyEscInsert ==
    /\ AtLoop("Insert")
    /\ Handled([app EXCEPT !.input_mode = "Normal", !.focus = None])

KeyOtherInsert == AtLoop("Insert") /\ Handled(app)

----------------------------------------------------------------------------
\* Enter in Insert mode, lines 263-424

\* Faulty variant of TakeInput: unique_lines is not drained either
TakeInputKeepingLines(a) ==
    [a EXCEPT !.this_station_name = a.input, !.input = <<>>]

\* Faulty variant of TakeInput: the input is drained before it is collected
TakeInputAfterDrain(a) ==
    [a EXCEPT !.this_station_name = <<>>,
              !.input = <<>>,
              !.this_StopTimetable.unique_lines = {}]

\* lines 264-265: the input is drained into this_station_name, unique_lines is drained
TakeInput(a) ==
    [a EXCEPT !.this_station_name = a.input,
              !.input = <<>>,
              !.this_StopTimetable.unique_lines = {}]

\* Faulty variant of InCache: the cache is never consulted
InCacheNever(a) == FALSE

\* line 268
InCache(a) == a.this_station_name \in DOMAIN a.stop_cache

\* Faulty variant of RetrieveCache: stop_point is left as the previous lookup set it
RetrieveCacheKeepingStopPoint(a) ==
    LET c == a.stop_cache[a.this_station_name]
    IN  [a EXCEPT !.this_StopTimetable.unique_lines = c.unique_lines,
                  !.this_StopTimetable.unique_platforms = c.unique_platforms,
                  !.this_StopTimetable.live_maps = c.live_maps,
                  !.this_StopTimetable.station_nodes = c.station_nodes]

\* lines 271-276: the cached fields are cloned into this_StopTimetable
RetrieveCache(a) ==
    LET c == a.stop_cache[a.this_station_name]
    IN  [a EXCEPT !.this_StopTimetable.stop_point = c.stop_point,
                  !.this_StopTimetable.unique_lines = c.unique_lines,
                  !.this_StopTimetable.unique_platforms = c.unique_platforms,
                  !.this_StopTimetable.live_maps = c.live_maps,
                  !.this_StopTimetable.station_nodes = c.station_nodes]

\* lines 279-285: the refreshed arrivals
SetArrivals(a, arrivals) == [a EXCEPT !.this_StopTimetable.arrivals = arrivals]

\* line 302: stop_cache.entry(name).or_insert(this_StopTimetable.clone())
UpdateCache(a) ==
    [a EXCEPT !.stop_cache = EntryOrInsert(@, a.this_station_name, a.this_StopTimetable)]

\* Faulty variant of ResolveStopPoint: the last match wins
ResolveStopPointLast(matches) ==
    IF Len(matches) = 0 THEN Some(DefaultStopPoint) ELSE matches[Len(matches)]

\* lines 315-318
ResolveStopPoint(matches) ==
    IF Len(matches) = 0 THEN Some(DefaultStopPoint) ELSE matches[1]

SetStopPoint(a, matches) ==
    [a EXCEPT !.this_StopTimetable.stop_point = ResolveStopPoint(matches)]

\* lines 329-331
InsertUniqueLines(a) ==
    [a EXCEPT !.this_StopTimetable.unique_lines =
                  @ \cup { a.this_StopTimetable.arrivals[i].lineId :
                             i \in DOMAIN a.this_StopTimetable.arrivals }]

\* lines 335-340: platform names of the arrivals of the line, in arrival order
RECURSIVE PlatformsForThisLine(_, _)
PlatformsForThisLine(arrivals, line) ==
    IF arrivals = <<>> THEN <<>>
    ELSE (IF Head(arrivals).lineId = line THEN <<Head(arrivals).platformName>> ELSE <<>>)
         \o PlatformsForThisLine(Tail(arrivals), line)

\* Faulty variant of SortedPlatforms: the collected names are pushed as they come
UnsortedPlatforms(platforms_for_this_line) == platforms_for_this_line

\* lines 343-350: through a BTreeMap keyed by the platform name
SortedPlatforms(platforms_for_this_line) ==
    BTreeKeysInOrder({ platforms_for_this_line[i] : i \in DOMAIN platforms_for_this_line })

\* Faulty variant of InsertPlatforms: the map is started afresh for each line, so
\* what it holds in the end depends on which line the HashSet yields last
InsertPlatformsFresh(a, line) ==
    [a EXCEPT !.this_StopTimetable.unique_platforms =
        MapInsert(EmptyMap, line,
                  SortedPlatforms(PlatformsForThisLine(a.this_StopTimetable.arrivals, line)))]

\* line 352
InsertPlatforms(a, line) ==
    [a EXCEPT !.this_StopTimetable.unique_platforms =
        MapInsert(@, line,
                  SortedPlatforms(PlatformsForThisLine(a.this_StopTimetable.arrivals, line)))]

\* impl WithStationName for Station
StationNew(stop_name) == [naptan_id |-> stop_name]

\* Faulty variant of InsertLiveMap: the two routes taken in the opposite order
InsertLiveMapSwapped(a, line, orderedLineRoutes) ==
    [a EXCEPT !.this_StopTimetable.live_maps =
        MapInsert(@, line,
                  [ stops_0 |-> [i \in DOMAIN orderedLineRoutes[2] |->
                                    StationNew(orderedLineRoutes[2][i])],
                    stops_1 |-> [i \in DOMAIN orderedLineRoutes[1] |->
                                    StationNew(orderedLineRoutes[1][i])],
                    trains_currently_at |-> <<>> ])]

\* lines 364-375
InsertLiveMap(a, line, orderedLineRoutes) ==
    [a EXCEPT !.this_StopTimetable.live_maps =
        MapInsert(@, line,
                  [ stops_0 |-> [i \in DOMAIN orderedLineRoutes[1] |->
                                    StationNew(orderedLineRoutes[1][i])],
                    stops_1 |-> [i \in DOMAIN orderedLineRoutes[2] |->
                                    StationNew(orderedLineRoutes[2][i])],
                    trains_currently_at |-> <<>> ])]

\* geometry of lines 379-392, in tenths
XStart == 125
XStep == 35
YPos == 500
RectWidth == 20
RectHeight == 100

\* lines 385-400 and 403-418: one StationNode per stop, x advancing by 3.5
Rects(stops, stop_point) ==
    [i \in DOMAIN stops |->
        [ naptan_id |-> stops[i].naptan_id,
          rect |-> [ x |-> XStart + XStep * (i - 1),
                     y |-> YPos,
                     width |-> RectWidth,
                     height |-> RectHeight,
                     color |-> IF stops[i].naptan_id = Unwrap(stop_point).id
                               THEN "LightGreen" ELSE "LightYellow" ] ]]

\* Faulty variant of InsertStationNodes: one x counter shared by both directions,
\* so the second list starts where the first one ended
InsertStationNodesSharedX(a, line) ==
    LET st == a.this_StopTimetable
        rects_0 == Rects(st.live_maps[line].stops_0, st.stop_point)
        r_1 == Rects(st.live_maps[line].stops_1, st.stop_point)
        rects_1 == [i \in DOMAIN r_1 |->
                       [r_1[i] EXCEPT !.rect.x = @ + XStep * Len(rects_0)]]
    IN  [a EXCEPT !.this_StopTimetable.station_nodes = MapInsert(@, line, <<rects_0, rects_1>>)]

\* Faulty variant of InsertStationNodes: the x counters are not reset between
\* lines, so a line's nodes sit further right the later the line is visited
InsertStationNodesRunningX(a, line) ==
    LET st == a.this_StopTimetable
        visited == Cardinality(st.unique_lines \cap DOMAIN st.station_nodes)
        shift(rects) == [i \in DOMAIN rects |->
                            [rects[i] EXCEPT !.rect.x = @ + XStep * visited]]
        rects_0 == shift(Rects(st.live_maps[line].stops_0, st.stop_point))
        rects_1 == shift(Rects(st.live_maps[line].stops_1, st.stop_point))
    IN  [a EXCEPT !.this_StopTimetable.station_nodes = MapInsert(@, line, <<rects_0, rects_1>>)]

\* Faulty variant of InsertStationNodes: only the forward list is stored
InsertStationNodesForwardOnly(a, line) ==
    LET st == a.this_StopTimetable
        rects_0 == Rects(st.live_maps[line].stops_0, st.stop_point)
    IN  [a EXCEPT !.this_StopTimetable.station_nodes = MapInsert(@, line, <<rects_0>>)]

\* lines 379-420
InsertStationNodes(a, line) ==
    LET tt == a.this_StopTimetable
        rects_0 == Rects(tt.live_maps[line].stops_0, tt.stop_point)
        rects_1 == Rects(tt.live_maps[line].stops_1, tt.stop_point)
    IN  [a EXCEPT !.this_StopTimetable.station_nodes = MapInsert(@, line, <<rects_0, rects_1>>)]

\* Faulty variant of InsertCache: keyed by the input field, already drained
InsertCacheUnderInput(a) ==
    [a EXCEPT !.stop_cache = MapInsert(@, a.input, a.this_StopTimetable)]

\* line 422
InsertCache(a) ==
    [a EXCEPT !.stop_cache = MapInsert(@, a.this_station_name, a.this_StopTimetable)]

\* Faulty variant of ForULine: the snapshot is stored as soon as the loop is
\* entered, before the lines still to come have been aggregated
ForULineCachingEarly(a, rest, rs) ==
    IF rest = {}
    THEN Goto(InsertCache(a), "loop", {}, NoLine, requests, rs, kind, lookups)
    ELSE \E line \in rest :
            Goto(InsertPlatforms(InsertCache(a), line), "route", rest \ {line}, line,
                 Append(requests, RouteReq(line)), rs, kind, lookups)

\* Faulty variant of ForULine: the route request of the line after this one is
\* sent along with this line's, before either has been answered
ForULinePrefetching(a, rest, rs) ==
    IF rest = {}
    THEN Goto(InsertCache(a), "loop", {}, NoLine, requests, rs, kind, lookups)
    ELSE \E line \in rest :
            Goto(InsertPlatforms(a, line), "route", rest \ {line}, line,
                 Append(requests, RouteReq(line))
                     \o (IF rest = {line} THEN <<>>
                         ELSE <<RouteReq(CHOOSE l \in rest \ {line} : TRUE)>>),
                 rs, kind, lookups)

\* Head of `for u_line in &unique_lines` (line 334) with `rest` not yet yielded, in
\* the HashSet's unspecified order.  With a line left, its platforms are grouped and
\* its route request is sent (335-362); with none left the snapshot is cached (422).
ForULine(a, rest, rs) ==
    IF rest = {}
    THEN Goto(InsertCache(a), "loop", {}, NoLine, requests, rs, kind, lookups)
    ELSE \E line \in rest :
            Goto(InsertPlatforms(a, line), "route", rest \ {line}, line,
                 Append(requests, RouteReq(line)), rs, kind, lookups)

KeyEnter ==
    /\ AtLoop("Insert")
    /\ lookups < MaxLookups
    /\ LET a == TakeInput(app)
       IN  IF InCache(a)
           THEN LET b == RetrieveCache(a)
                IN  IF b.this_StopTimetable.stop_point = None
                    THEN Goto(b, "panicked", iter, u_line, <<>>, resp, "hit", lookups + 1)
                    ELSE Goto(b, "hit_arrivals", iter, u_line,
                              <<ArrivalsReq(Unwrap(b.this_StopTimetable.stop_point).id)>>,
                              resp, "hit", lookups + 1)
           ELSE Goto(a, "search", iter, u_line, <<SearchReq(a.this_station_name)>>,
                     resp, "miss", lookups + 1)

\* hit, lines 279-302
RecvHitArrivals ==
    /\ pc = "hit_arrivals"
    /\ \E r \in ArrivalsResponses :
          IF ~r.ok THEN Panic(app, r)
          ELSE Goto(UpdateCache(SetArrivals(app, r.body)), "loop", iter, u_line,
                    requests, r, kind, lookups)

\* Faulty variant of RecvSearch: a null first match ends the lookup at once, and the
\* snapshot is stored as it is
RecvSearchStoringNull ==
    /\ pc = "search"
    /\ \E r \in SearchResponses :
          IF ~r.ok THEN Panic(app, r)
          ELSE LET a == SetStopPoint(app, r.body)
               IN  IF a.this_StopTimetable.stop_point = None
                   THEN ForULine(a, {}, r)
                   ELSE Goto(a, "arrivals", iter, u_line,
                             Append(requests,
                                    ArrivalsReq(Unwrap(a.this_StopTimetable.stop_point).id)),
                             r, kind, lookups)

\* Faulty variant of RecvSearch: a failed search is dropped and the loop goes on
RecvSearchGivingUp ==
    /\ pc = "search"
    /\ \E r \in SearchResponses :
          IF ~r.ok THEN Goto(app, "loop", iter, u_line, requests, r, kind, lookups)
          ELSE LET a == SetStopPoint(app, r.body)
               IN  IF a.this_StopTimetable.stop_point = None
                   THEN Panic(a, r)
                   ELSE Goto(a, "arrivals", iter, u_line,
                             Append(requests,
                                    ArrivalsReq(Unwrap(a.this_StopTimetable.stop_point).id)),
                             r, kind, lookups)

\* miss, lines 308-321
RecvSearch ==
    /\ pc = "search"
    /\ \E r \in SearchResponses :
          IF ~r.ok THEN Panic(app, r)
          ELSE LET a == SetStopPoint(app, r.body)
               IN  IF a.this_StopTimetable.stop_point = None
                   THEN Panic(a, r)
                   ELSE Goto(a, "arrivals", iter, u_line,
                             Append(requests,
                                    ArrivalsReq(Unwrap(a.this_StopTimetable.stop_point).id)),
                             r, kind, lookups)

\* miss, lines 321-362
RecvArrivals ==
    /\ pc = "arrivals"
    /\ \E r \in ArrivalsResponses :
          IF ~r.ok THEN Panic(app, r)
          ELSE LET a == InsertUniqueLines(SetArrivals(app, r.body))
               IN  ForULine(a, a.this_StopTimetable.unique_lines, r)

\* Faulty variant of RecvRoute: a missing direction is taken to be an empty route
RecvRouteDefaulting ==
    /\ pc = "route"
    /\ \E r \in RouteResponses :
          IF ~r.ok THEN Panic(app, r)
          ELSE LET orderedLineRoutes == IF Len(r.body) = 0 THEN << <<>>, <<>> >>
                                        ELSE IF Len(r.body) = 1 THEN << r.body[1], <<>> >>
                                        ELSE r.body
               IN  ForULine(InsertStationNodes(InsertLiveMap(app, u_line, orderedLineRoutes),
                                               u_line),
                            iter, r)

\* miss, lines 356-422
RecvRoute ==
    /\ pc = "route"
    /\ \E r \in RouteResponses :
          IF ~r.ok \/ Len(r.body) < 2 THEN Panic(app, r)
          ELSE ForULine(InsertStationNodes(InsertLiveMap(app, u_line, r.body), u_line),
                        iter, r)

----------------------------------------------------------------------------
Next ==
    \/ Boot
    \/ KeyRight \/ KeyLeft \/ KeyI \/ KeyQ \/ KeyR \/ RecvRefresh
    \/ KeyEscNormal \/ KeyJ \/ KeyK \/ KeyOtherNormal
    \/ KeyChar \/ KeyBackspace \/ KeyEscInsert \/ KeyOtherInsert
    \/ KeyEnter \/ RecvHitArrivals \/ RecvSearch \/ RecvArrivals \/ RecvRoute

Spec == Init /\ [][Next]_vars

\* Every request that was sent is answered in the end (by a body or by an error):
\* the resumption of each .await of a lookup is weakly fair.  Key presses are not.
FairSpec ==
    /\ Spec
    /\ WF_vars(RecvHitArrivals)
    /\ WF_vars(RecvSearch)
    /\ WF_vars(RecvArrivals)
    /\ WF_vars(RecvRoute)

----------------------------------------------------------------------------
\* The timetable of a large station.  A miss is taken up where its last route
\* response is awaited, for an arrivals response naming up to MaxLines lines with
\* up to MaxPlatforms platforms each: stations of that size do not fit the bounds
\* of Spec.  The App is built by the operators of the miss branch themselves.

LineNo(i) == ToString(i)
PlatformNo(j) == <<j>>

\* an arrivals response with n lines of p platforms each
BoardOf(n, p) ==
    [k \in 1..(n * p) |-> MkArrival(LineNo(((k - 1) \div p) + 1), PlatformNo(((k - 1) % p) + 1))]

\* lines 334-420 for the lines already visited
RECURSIVE AggregateLines(_, _)
AggregateLines(a, lines) ==
    IF lines = {} THEN a
    ELSE LET l == CHOOSE x \in lines : TRUE
         IN  AggregateLines(
                 InsertStationNodes(
                     InsertLiveMap(InsertPlatforms(a, l), l, <<RouteOut, RouteBack>>), l),
                 lines \ {l})

\* run_app at line 362 for the last line of a station with n lines of p platforms,
\* Enter having been pressed on tab t
AwaitingLastRoute(n, p, t) ==
    LET a0 == [LoadStatus(AppNew, StatusList) EXCEPT
                   !.tab_index = t, !.input_mode = "Insert", !.focus = Some("InputBlock")]
        a1 == InsertUniqueLines(
                  SetArrivals(SetStopPoint(TakeInput(a0), <<Some(OxfordCircus)>>),
                              BoardOf(n, p)))
        last == LineNo(n)
        earlier == a1.this_StopTimetable.unique_lines \ {last}
    IN  /\ app = InsertPlatforms(AggregateLines(a1, earlier), last)
        /\ pc = "route"
        /\ iter = {}
        /\ u_line = last
        /\ requests = << SearchReq(a1.this_station_name), ArrivalsReq(OxfordCircus.id) >>
                          \o [i \in 1..n |-> RouteReq(LineNo(i))]
        /\ answered = n + 1
        /\ resp = IF n = 1 THEN Ok("arrivals", BoardOf(n, p))
                  ELSE Ok("route", <<RouteOut, RouteBack>>)
        /\ kind = "miss"
        /\ lookups = 1
        /\ frame = "drawn"
        /\ routes = [l \in earlier |-> <<RouteOut, RouteBack>>]

DrawInit ==
    \E n \in 1..MaxLines, p \in 1..MaxPlatforms, t \in {0, 1} : AwaitingLastRoute(n, p, t)

DrawNext == RecvRoute \/ KeyEscInsert \/ KeyRight \/ KeyLeft

DrawSpec == DrawInit /\ [][DrawNext]_vars

----------------------------------------------------------------------------
\* Vocabulary of the properties

tt == app.this_StopTimetable
cache == app.stop_cache
name == app.this_station_name

\* terminal.draw (line 201) is handed the App exactly when run_app is at the loop top
AfterHit == pc = "loop" /\ kind = "hit"
AfterMiss == pc = "loop" /\ kind = "miss"

Range(seq) == { seq[i] : i \in DOMAIN seq }
LineIds(arrivals) == { arrivals[i].lineId : i \in DOMAIN arrivals }
PlatformNames(arrivals) == { arrivals[i].platformName : i \in DOMAIN arrivals }
PlatformsOn(arrivals, line) ==
    { arrivals[i].platformName : i \in { j \in DOMAIN arrivals : arrivals[j].lineId = line } }
AllPlatforms(unique_platforms) ==
    UNION { Range(unique_platforms[l]) : l \in DOMAIN unique_platforms }

\* A cache entry is written once (line 422) and line 302 never replaces it, so the
\* arrivals stored in an entry are the arrivals of the lookup that created it.
ArrivalsAtCreation(n) == cache[n].arrivals

----------------------------------------------------------------------------
\* C1: after a cache hit the rendered snapshot has stopPoint, uniqueLines,
\* platformsByLine, liveMaps and stationNodes equal to the cached entry's and its
\* arrivals equal to the arrivals just fetched; and a line or platform of the fresh
\* arrivals that was absent from the arrivals at creation is in neither
\* platformsByLine nor uniqueLines.
HitReusesCache ==
    AfterHit =>
        /\ tt.stop_point = cache[name].stop_point
        /\ tt.unique_lines = cache[name].unique_lines
        /\ tt.unique_platforms = cache[name].unique_platforms
        /\ tt.live_maps = cache[name].live_maps
        /\ tt.station_nodes = cache[name].station_nodes
        /\ resp.kind = "arrivals" /\ resp.ok /\ tt.arrivals = resp.body

HitShowsNothingNew ==
    AfterHit =>
        \A i \in DOMAIN tt.arrivals :
            /\ tt.arrivals[i].lineId \notin LineIds(ArrivalsAtCreation(name))
                  => /\ tt.arrivals[i].lineId \notin tt.unique_lines
                     /\ tt.arrivals[i].lineId \notin DOMAIN tt.unique_platforms
            /\ tt.arrivals[i].platformName \notin PlatformNames(ArrivalsAtCreation(name))
                  => tt.arrivals[i].platformName \notin AllPlatforms(tt.unique_platforms)

C1_HitSnapshot == HitReusesCache /\ HitShowsNothingNew

----------------------------------------------------------------------------
\* C2: in every cached snapshot every key of platformsByLine, liveMaps and
\* stationNodes is a member of that snapshot's uniqueLines.
C2_CachedKeysInUniqueLines ==
    \A n \in DOMAIN cache :
        /\ DOMAIN cache[n].unique_platforms \subseteq cache[n].unique_lines
        /\ DOMAIN cache[n].live_maps \subseteq cache[n].unique_lines
        /\ DOMAIN cache[n].station_nodes \subseteq cache[n].unique_lines

----------------------------------------------------------------------------
\* C3 as stated: in the rendered snapshot and in every cached one, uniqueLines is
\* exactly the set of lineId values of that snapshot's arrivals.
C3_UniqueLinesAreArrivalLines ==
    /\ pc = "loop" => tt.unique_lines = LineIds(tt.arrivals)
    /\ \A n \in DOMAIN cache : cache[n].unique_lines = LineIds(cache[n].arrivals)

\* C3 amended: uniqueLines is exactly the set of lineId values of the arrivals in
\* every cached snapshot and in the rendered snapshot unless the last lookup was a
\* cache hit; after a hit the rendered uniqueLines is the set of lineId values of
\* the arrivals the entry was created from.
C3_UniqueLinesOfCreation ==
    /\ \A n \in DOMAIN cache : cache[n].unique_lines = LineIds(cache[n].arrivals)
    /\ (pc = "loop" /\ kind /= "hit") => tt.unique_lines = LineIds(tt.arrivals)
    /\ AfterHit => tt.unique_lines = LineIds(ArrivalsAtCreation(name))

\* a hit whose refreshed arrivals run on other lines than the cached uniqueLines
C3_Witness ==
    /\ AfterHit
    /\ tt.unique_lines /= {}
    /\ tt.unique_lines = LineIds(ArrivalsAtCreation(name))
    /\ LineIds(tt.arrivals) /= tt.unique_lines

----------------------------------------------------------------------------
\* C4: a cache entry is never removed and its stopPoint, platformsByLine, liveMaps
\* and stationNodes never change, whatever lookups follow; the keys only grow.
C4_CacheEntriesFrozen ==
    [][ \A n \in DOMAIN app.stop_cache :
            /\ n \in DOMAIN app'.stop_cache
            /\ app'.stop_cache[n].stop_point = app.stop_cache[n].stop_point
            /\ app'.stop_cache[n].unique_platforms = app.stop_cache[n].unique_platforms
            /\ app'.stop_cache[n].live_maps = app.stop_cache[n].live_maps
            /\ app'.stop_cache[n].station_nodes = app.stop_cache[n].station_nodes ]_vars

\* two entries, the older one looked up again after the younger one was created
C4_Witness ==
    /\ AfterHit
    /\ Cardinality(DOMAIN cache) = 2
    /\ lookups = 3

----------------------------------------------------------------------------
\* C5: after a cache hit the arrivals of the cache entry under that name are the
\* arrivals just fetched.
C5_HitRefreshesCachedArrivals ==
    AfterHit => (resp.kind = "arrivals" /\ cache[name].arrivals = resp.body)

----------------------------------------------------------------------------
\* C6: in a snapshot built on a miss, for every line of uniqueLines,
\* platformsByLine[line] lists exactly the platform names of the arrivals of that
\* line, ascending in lexicographic order and without duplicates.
SortedDistinctPlatformsOf(s) ==
    \A l \in s.unique_lines :
        /\ l \in DOMAIN s.unique_platforms
        /\ Range(s.unique_platforms[l]) = PlatformsOn(s.arrivals, l)
        /\ \A i, j \in DOMAIN s.unique_platforms[l] :
              i < j => LexLess(s.unique_platforms[l][i], s.unique_platforms[l][j])

C6_PlatformsSortedDistinct ==
    /\ AfterMiss => SortedDistinctPlatformsOf(tt)
    /\ \A n \in DOMAIN cache : SortedDistinctPlatformsOf(cache[n])

\* arrivals "2" then "10" on one line come out as ["10", "2"]
C6_Witness ==
    /\ AfterMiss
    /\ tt.arrivals = <<MkArrival("victoria", P2), MkArrival("victoria", P10)>>
    /\ tt.unique_platforms["victoria"] = <<P10, P2>>

----------------------------------------------------------------------------
\* C7: in a snapshot built on a miss, the union of the platformsByLine values over
\* all its keys is the set of platform names of its arrivals.
C7_GroupingComplete ==
    AfterMiss => AllPlatforms(tt.unique_platforms) = PlatformNames(tt.arrivals)

----------------------------------------------------------------------------
\* C8: after a miss whose fetches all succeeded the cache holds the submitted name
\* and the entry equals the rendered snapshot in every field, which has the
\* platforms, the live map and the station nodes of every line of its arrivals.
C8_MissCachesSnapshot ==
    AfterMiss =>
        /\ name \in DOMAIN cache
        /\ cache[name] = tt
        /\ tt.unique_lines = LineIds(tt.arrivals)
        /\ \A l \in tt.unique_lines :
              /\ l \in DOMAIN tt.unique_platforms
              /\ l \in DOMAIN tt.live_maps
              /\ l \in DOMAIN tt.station_nodes

C8_Witness ==
    /\ AfterMiss
    /\ name = <<"a">>
    /\ Cardinality(tt.unique_lines) = 2
    /\ tt.stop_point = Some(Victoria)
    /\ cache[name] = tt

----------------------------------------------------------------------------
\* C9: the cache key is the submitted string itself: Enter takes the hit branch
\* exactly when the submitted input is a key of the cache, the cache changes only
\* by a completed miss adding the submitted name, and entries under other keys are
\* neither created, changed nor removed.
C9_ExactKey ==
    [][ /\ (pc = "loop" /\ pc' \in {"search", "hit_arrivals"})
            => /\ app'.this_station_name = app.input
               /\ pc' = "hit_arrivals" <=> app.input \in DOMAIN app.stop_cache
        /\ \A k \in (DOMAIN app.stop_cache) \cup (DOMAIN app'.stop_cache) :
              k /= app'.this_station_name
                 => /\ k \in DOMAIN app.stop_cache
                    /\ k \in DOMAIN app'.stop_cache
                    /\ app'.stop_cache[k] = app.stop_cache[k]
        /\ app'.stop_cache /= app.stop_cache
            => /\ kind = "miss" /\ pc' = "loop"
               /\ app'.this_station_name = app.this_station_name
               /\ DOMAIN app'.stop_cache
                     = (DOMAIN app.stop_cache) \cup {app.this_station_name} ]_vars

\* two spellings resolved to the same stop are two entries
C9_Witness ==
    /\ pc = "loop"
    /\ DOMAIN cache = { <<>>, <<"a">> }
    /\ cache[<<>>].stop_point = Some(OxfordCircus)
    /\ cache[<<"a">>].stop_point = Some(OxfordCircus)

----------------------------------------------------------------------------
\* C10 as stated: every successful search response resolves to a StopPoint: the
\* default empty one for no match, the single match for one, the first for several.
C10_ResolutionReturnsStopPoint ==
    (resp.kind = "search" /\ resp.ok) =>
        /\ tt.stop_point /= None
        /\ Len(resp.body) = 0 => tt.stop_point = Some(DefaultStopPoint)
        /\ Len(resp.body) = 1 => tt.stop_point = resp.body[1]
        /\ Len(resp.body) > 1 => tt.stop_point = resp.body[1]

\* C10 amended: a successful search response resolves to the default empty
\* StopPoint for no match and to the first match when that is present, and the
\* lookup goes on to the arrivals request; when the first match is null there is no
\* StopPoint and the process aborts at the unwrap of line 321.
C10_Resolution ==
    (resp.kind = "search" /\ resp.ok) =>
        /\ Len(resp.body) = 0
              => (pc = "arrivals" /\ tt.stop_point = Some(DefaultStopPoint))
        /\ (Len(resp.body) >= 1 /\ resp.body[1] /= None)
              => (pc = "arrivals" /\ tt.stop_point = resp.body[1])
        /\ (Len(resp.body) >= 1 /\ resp.body[1] = None)
              => (pc = "panicked" /\ tt.stop_point = None)

\* several matches: the first is taken
C10_Witness ==
    /\ pc = "arrivals"
    /\ resp.kind = "search" /\ resp.ok
    /\ Len(resp.body) = 2
    /\ resp.body[2] /= resp.body[1]
    /\ tt.stop_point = resp.body[1]

-----------------------------------------------------------------------------
\* C11: a search without matches fails the aggregation: no snapshot whose
\* stopPoint has the empty id is ever handed to the renderer or stored in the cache.
C11_NoEmptyStopSnapshot ==
    /\ (pc = "loop" /\ tt.stop_point /= None) => Unwrap(tt.stop_point).id /= ""
    /\ \A n \in DOMAIN cache :
          cache[n].stop_point /= None => Unwrap(cache[n].stop_point).id /= ""

-----------------------------------------------------------------------------
\* C12: a fetch of a lookup that fails (transport or parse) fails only that
\* lookup: the step that receives the failure leaves the cache as it was and
\* run_app is back at the loop top, accepting the next key.
C12_FetchFailureIsRecoverable ==
    [][(pc \in {"search", "arrivals", "route", "hit_arrivals"} /\ ~resp'.ok)
          => /\ app'.stop_cache = app.stop_cache
             /\ pc' = "loop"]_vars

-----------------------------------------------------------------------------
\* the snapshot has an entry for each of its lines in all three per-line maps
HasAllLines(st) ==
    \A l \in st.unique_lines :
        /\ l \in DOMAIN st.unique_platforms
        /\ l \in DOMAIN st.live_maps
        /\ l \in DOMAIN st.station_nodes

\* C13: no partial snapshot is cached: a step that writes the cache ends a lookup
\* all of whose requests were answered successfully, route requests for every
\* line included, and every cached entry has platformsByLine, liveMaps and
\* stationNodes entries for every line of its uniqueLines.
C13_NoPartialSnapshotCached ==
    [][app'.stop_cache /= app.stop_cache
          => /\ pc' = "loop" /\ resp'.ok
             /\ answered' = Len(requests')
             /\ app'.this_StopTimetable.unique_lines \subseteq DOMAIN routes'
             /\ \A n \in DOMAIN app'.stop_cache : HasAllLines(app'.stop_cache[n])]_vars

C13_Witness ==
    /\ AfterMiss
    /\ Cardinality(tt.unique_lines) = 2
    /\ name \in DOMAIN cache /\ cache[name] = tt
    /\ HasAllLines(cache[name])
    /\ DOMAIN routes = tt.unique_lines

-----------------------------------------------------------------------------
\* every StopTimetable the program holds: the working one and the cached ones
Snapshots == {tt} \cup { cache[n] : n \in DOMAIN cache }

\* the stop list of direction d (1 forward, 2 backward) of a LiveMap
StopsOf(live_map, d) == IF d = 1 THEN live_map.stops_0 ELSE live_map.stops_1

\* C14: the node list of either direction of a line has one node per stop of that
\* direction, in the same order with the same ids; node i (from 0) sits at
\* x = 12.5 + 3.5 * i, y = 50.0 and is 2.0 wide and 10.0 high (in tenths here),
\* the x positions of the two directions being counted independently.
C14_LayoutProjection ==
    \A st \in Snapshots : \A l \in DOMAIN st.station_nodes : \A d \in 1..2 :
        LET stops == StopsOf(st.live_maps[l], d)
            nodes == st.station_nodes[l][d]
        IN  /\ Len(nodes) = Len(stops)
            /\ \A i \in 1..Len(stops) :
                  /\ nodes[i].naptan_id = stops[i].naptan_id
                  /\ nodes[i].rect.x = 125 + 35 * (i - 1)
                  /\ nodes[i].rect.y = 500
                  /\ nodes[i].rect.width = 20
                  /\ nodes[i].rect.height = 100

C14_Witness ==
    \E l \in DOMAIN tt.station_nodes :
        /\ pc = "loop"
        /\ Len(tt.station_nodes[l][1]) = 3
        /\ Len(tt.station_nodes[l][2]) = 2
        /\ tt.station_nodes[l][1][3].rect.x = 195
        /\ tt.station_nodes[l][2][2].rect.x = 160

-----------------------------------------------------------------------------
\* the StopTimetables handed to the renderer (line 201) or stored in the cache
Shown == (IF pc = "loop" THEN {tt} ELSE {}) \cup { cache[n] : n \in DOMAIN cache }

\* C15: in every snapshot rendered or cached, for every line key of stationNodes
\* and both directions, a node is highlighted (LightGreen) exactly when its stop
\* id equals the id of that snapshot's stopPoint.
C15_HighlightIsOwnStop ==
    \A st \in Shown : \A l \in DOMAIN st.station_nodes : \A d \in 1..2 :
        \A i \in DOMAIN st.station_nodes[l][d] :
            LET node == st.station_nodes[l][d][i]
            IN  node.rect.color = "LightGreen"
                    <=> node.naptan_id = Unwrap(st.stop_point).id

-----------------------------------------------------------------------------
\* the stop ids of a stop list, in order
StopIds(stops) == [i \in DOMAIN stops |-> stops[i].naptan_id]

\* C16: in every snapshot stationNodes[line] holds exactly two node lists, as long
\* as stopsForward and stopsBackward of liveMaps[line]; and for a line whose route
\* response the lookup has taken in, these two stop sequences are the stop ids of
\* the response's routes at index 0 and index 1.
C16_TwoDirectionsFromRoutes ==
    /\ \A st \in Snapshots : \A l \in DOMAIN st.station_nodes :
          /\ Len(st.station_nodes[l]) = 2
          /\ Len(st.station_nodes[l][1]) = Len(st.live_maps[l].stops_0)
          /\ Len(st.station_nodes[l][2]) = Len(st.live_maps[l].stops_1)
    /\ \A l \in DOMAIN routes :
          Len(routes[l]) >= 2
              => /\ l \in DOMAIN tt.live_maps /\ l \in DOMAIN tt.station_nodes
                 /\ StopIds(tt.live_maps[l].stops_0) = routes[l][1]
                 /\ StopIds(tt.live_maps[l].stops_1) = routes[l][2]

C16_Witness ==
    \E l \in DOMAIN routes :
        /\ AfterMiss
        /\ routes[l] = <<RouteOut, RouteBack>>
        /\ StopIds(tt.live_maps[l].stops_0) = RouteOut
        /\ StopIds(tt.live_maps[l].stops_1) = RouteBack
        /\ Len(tt.station_nodes[l]) = 2

-----------------------------------------------------------------------------
\* What the three per-line maps are, written as functions of the responses alone
\* (arrivals list, resolved stop, route response of each line), with no reference
\* to the order in which the lines were visited.
AscendingNamesOf(S) ==
    CHOOSE s \in [1..Cardinality(S) -> S] :
        /\ Range(s) = S
        /\ \A i, j \in DOMAIN s : i < j => LexLess(s[i], s[j])

PlatformsByLineOf(arrivals) ==
    [l \in LineIds(arrivals) |-> AscendingNamesOf(PlatformsOn(arrivals, l))]

LiveMapsOf(rts) ==
    [l \in DOMAIN rts |->
        [ stops_0 |-> [i \in DOMAIN rts[l][1] |-> [naptan_id |-> rts[l][1][i]]],
          stops_1 |-> [i \in DOMAIN rts[l][2] |-> [naptan_id |-> rts[l][2][i]]],
          trains_currently_at |-> <<>> ]]

NodesOf(ids, stop_id) ==
    [i \in DOMAIN ids |->
        [ naptan_id |-> ids[i],
          rect |-> [ x |-> 125 + 35 * (i - 1), y |-> 500, width |-> 20, height |-> 100,
                     color |-> IF ids[i] = stop_id THEN "LightGreen" ELSE "LightYellow" ] ]]

StationNodesOf(rts, stop_id) ==
    [l \in DOMAIN rts |-> << NodesOf(rts[l][1], stop_id), NodesOf(rts[l][2], stop_id) >>]

\* C17: on an App whose cache and snapshot start empty, the platformsByLine,
\* liveMaps and stationNodes of the snapshot built and cached by the lookup are
\* determined by the responses it received: two such instances fed the same
\* responses end with identical maps, whatever order the lines were visited in.
C17_MapsDeterminedByResponses ==
    (lookups = 1 /\ AfterMiss)
        => /\ tt.unique_platforms = PlatformsByLineOf(tt.arrivals)
           /\ tt.live_maps = LiveMapsOf(routes)
           /\ tt.station_nodes = StationNodesOf(routes, Unwrap(tt.stop_point).id)
           /\ cache[name] = tt

C17_Witness ==
    /\ lookups = 1 /\ AfterMiss
    /\ Cardinality(DOMAIN routes) = 2
    /\ DOMAIN tt.unique_platforms = DOMAIN routes
    /\ tt.unique_platforms = PlatformsByLineOf(tt.arrivals)
    /\ tt.station_nodes = StationNodesOf(routes, Unwrap(tt.stop_point).id)

-----------------------------------------------------------------------------
\* C18: a lookup that hits the cache issues exactly one request, the arrivals
\* request for the id of the cached stopPoint (no search, no route request), and
\* no step of it adds a key to the cache.
C18_HitFetchesArrivalsOnly ==
    [][kind' = "hit"
          => /\ app'.stop_cache[app'.this_station_name].stop_point /= None
             /\ requests' = << ArrivalsReq(
                    Unwrap(app'.stop_cache[app'.this_station_name].stop_point).id) >>
             /\ DOMAIN app'.stop_cache = DOMAIN app.stop_cache]_vars

C18_Witness ==
    /\ AfterHit
    /\ answered = 1
    /\ requests = << ArrivalsReq("940GZZLUVIC") >>
    /\ Cardinality(DOMAIN cache) = 2

-----------------------------------------------------------------------------
\* the lines whose route has been requested by the lookup
RouteRequested == { requests[i].arg : i \in { j \in DOMAIN requests : j >= 3 } }

\* the request log of a miss: search, arrivals of the resolved stop, then routes of
\* distinct lines of unique_lines, and never two requests unanswered
MissRequestsInOrder ==
    kind = "miss"
        => /\ Len(requests) >= 1 /\ requests[1] = SearchReq(name)
           /\ Len(requests) >= 2
                 => requests[2] = ArrivalsReq(Unwrap(tt.stop_point).id)
           /\ \A i \in DOMAIN requests :
                 i >= 3 => /\ requests[i] = RouteReq(requests[i].arg)
                           /\ requests[i].arg \in tt.unique_lines
                           /\ \A j \in DOMAIN requests :
                                 (j >= 3 /\ j /= i) => requests[j].arg /= requests[i].arg
           /\ Len(requests) - answered \in {0, 1}
           /\ pc = "loop" => /\ answered = Len(requests)
                             /\ RouteRequested = tt.unique_lines

\* C19: on a miss the requests go out strictly in the order search, arrivals of
\* the resolved stop, then one route request for each line of uniqueLines, each
\* sent only after the one before it was answered; the cache is written once, for
\* the submitted name, by the step that takes in the last response.
C19_MissSequence ==
    [][/\ MissRequestsInOrder'
       /\ app'.stop_cache /= app.stop_cache
             => /\ kind = "miss" /\ pc' = "loop"
                /\ answered' = Len(requests') /\ Len(requests') >= 2
                /\ RouteRequested' = app'.this_StopTimetable.unique_lines
                /\ app.this_station_name \notin DOMAIN app.stop_cache
                /\ DOMAIN app'.stop_cache = DOMAIN app.stop_cache \cup {app.this_station_name}
      ]_vars

C19_Witness ==
    /\ AfterMiss
    /\ Len(requests) = 4 /\ answered = 4
    /\ requests[3].arg /= requests[4].arg
    /\ RouteRequested = tt.unique_lines
    /\ name \in DOMAIN cache

-----------------------------------------------------------------------------
\* run_app is inside the Enter handler, at one of the .await points of a lookup
InLookup == pc \in {"search", "arrivals", "route", "hit_arrivals"}

\* what the draw at the loop top finds once a lookup has been submitted: nothing
\* unanswered, no line left to visit, and a snapshot that is whole
WholeSnapshotDrawn ==
    (pc = "loop" /\ kind /= "none")
        => /\ answered = Len(requests)
           /\ iter = {}
           /\ HasAllLines(tt)
           /\ name \in DOMAIN cache
           /\ kind = "miss" => cache[name] = tt
           /\ kind = "hit" => tt.unique_lines = cache[name].unique_lines

\* C20: from the submission of a lookup to its completion or abort no other key
\* event is handled and nothing is drawn: every step taken meanwhile is the
\* receipt of the response to the outstanding request, touches nothing of the
\* App but the snapshot and the cache, and the draw sees only whole snapshots.
C20_LookupRunsToCompletion ==
    [][/\ WholeSnapshotDrawn'
       /\ InLookup
             => /\ resp'.kind = requests[Len(requests)].call
                /\ answered' = answered + 1
                /\ lookups' = lookups
                /\ pc' \in {"search", "arrivals", "route", "hit_arrivals", "loop", "panicked"}
                /\ [app' EXCEPT !.this_StopTimetable = app.this_StopTimetable,
                                !.stop_cache = app.stop_cache] = app
      ]_vars

C20_Witness ==
    /\ pc = "route"
    /\ iter /= {}
    /\ Len(requests) = 3 /\ answered = 2
    /\ ~HasAllLines(tt)
    /\ name \notin DOMAIN cache

-----------------------------------------------------------------------------
\* the lookup is over: the loop reads input again and the name is in the cache
LookupCompleted == pc = "loop" /\ name \in DOMAIN cache

\* C21: with every request answered in the end, a submitted lookup ends: either
\* the name is a key of the cache and the loop reads input again, or the process
\* has terminated.  It is never pending forever, and no step leaves a lookup with
\* the process running and the name not cached.
C21_LookupEnds ==
    /\ InLookup ~> (LookupCompleted \/ pc = "panicked")
    /\ [][InLookup => (InLookup' \/ LookupCompleted' \/ pc' = "panicked")]_vars

C21_Witness ==
    /\ LookupCompleted
    /\ kind = "miss"
    /\ Len(requests) = 4 /\ answered = 4
    /\ lookups = 2

-----------------------------------------------------------------------------
\* C22: a route response with fewer than two directional routes fails the
\* aggregation: the step that takes it in creates no LiveMap (the live maps stay
\* as they were, so none with a defaulted or empty direction appears), aborts the
\* lookup, and the submitted name gets no cache entry.
C22_ShortRouteResponseFails ==
    [][(pc = "route" /\ resp'.ok /\ Len(resp'.body) < 2)
          => /\ pc' = "panicked"
             /\ app'.this_StopTimetable.live_maps = app.this_StopTimetable.live_maps
             /\ app'.stop_cache = app.stop_cache
             /\ app'.this_station_name \notin DOMAIN app'.stop_cache]_vars

C22_Witness ==
    /\ pc = "panicked"
    /\ resp.kind = "route" /\ resp.ok /\ Len(resp.body) = 1
    /\ kind = "miss"
    /\ name \notin DOMAIN cache

-----------------------------------------------------------------------------
\* a step of the loop over unique_lines leaves alone every entry of map m that
\* does not belong to a line of the lookup
KeepsOtherLines(m_before, m_after, lines) ==
    \A l \in DOMAIN m_before :
        l \in DOMAIN m_after /\ (l \notin lines => m_after[l] = m_before[l])

\* C23: the order in which the lines of uniqueLines are visited does not reach
\* the snapshot.  Whatever the order, a finished miss has, for each of its lines,
\* the platformsByLine, liveMaps and stationNodes entries that the responses
\* alone determine, and no step of the loop touches the entry of any other line.
C23_IterationOrderIrrelevant ==
    [][/\ AfterMiss'
          => \A l \in tt'.unique_lines :
                /\ tt'.unique_platforms[l] = PlatformsByLineOf(tt'.arrivals)[l]
                /\ tt'.live_maps[l] = LiveMapsOf(routes')[l]
                /\ tt'.station_nodes[l]
                      = StationNodesOf(routes', Unwrap(tt'.stop_point).id)[l]
       /\ pc \in {"arrivals", "route"}
          => /\ KeepsOtherLines(tt.unique_platforms, tt'.unique_platforms, tt'.unique_lines)
             /\ KeepsOtherLines(tt.live_maps, tt'.live_maps, tt'.unique_lines)
             /\ KeepsOtherLines(tt.station_nodes, tt'.station_nodes, tt'.unique_lines)
      ]_vars

\* the two lines visited in one order ...
C23_Witness ==
    /\ AfterMiss /\ lookups = 2
    /\ tt.unique_lines = {"victoria", "bakerloo"}
    /\ requests[3].arg = "bakerloo" /\ requests[4].arg = "victoria"
    /\ DOMAIN tt.station_nodes = tt.unique_lines

\* ... and in the other
C23_OtherOrder ==
    /\ AfterMiss /\ lookups = 2
    /\ tt.unique_lines = {"victoria", "bakerloo"}
    /\ requests[3].arg = "victoria" /\ requests[4].arg = "bakerloo"
    /\ DOMAIN tt.station_nodes = tt.unique_lines

-----------------------------------------------------------------------------
\* C24: stop_cache and this_StopTimetable change only in the handling of Enter in
\* Insert mode: a step that neither submits a lookup nor belongs to one (any
\* other key in either mode, the status refresh of 'r' included) leaves both
\* unchanged.
C24_OnlyEnterTouchesSnapshots ==
    [][(lookups' = lookups /\ ~InLookup)
          => /\ app'.stop_cache = app.stop_cache
             /\ app'.this_StopTimetable = app.this_StopTimetable]_vars

C24_Witness ==
    /\ pc = "loop"
    /\ app.input_mode = "Normal" /\ app.tab_index = 0
    /\ app.input /= <<>>
    /\ Cardinality(DOMAIN cache) = 1
    /\ tt.arrivals /= <<>>
    /\ cache[name] = tt

-----------------------------------------------------------------------------
\* C25: a miss yields the maps that the same responses yield in a fresh session
\* (those are PlatformsByLineOf, LiveMapsOf and StationNodesOf of the responses,
\* by C17), whichever stations were looked up before it.
C25_MissIndependentOfHistory ==
    AfterMiss
        => /\ tt.unique_platforms = PlatformsByLineOf(tt.arrivals)
           /\ tt.live_maps = LiveMapsOf(routes)
           /\ tt.station_nodes = StationNodesOf(routes, Unwrap(tt.stop_point).id)

-----------------------------------------------------------------------------
\* C26: for a snapshot with arrivals, however many lines it has and however many
\* platforms a line has, the timetable renderer has a row for every line and a
\* column for every platform: no draw ends on rows[row_count] or cols[col_count]
\* out of range.
C26_LayoutFitsAnyStation ==
    frame \notin {"row_out_of_range", "col_out_of_range"}

-----------------------------------------------------------------------------
\* C27: at every redraw every line of the current snapshot's uniqueLines is a key
\* of its platformsByLine and of its stationNodes, the latter with two node
\* lists, after any sequence of hits and misses: no draw ends on a per-line map
\* lookup that misses.
C27_RendererLookupsHit ==
    /\ frame \notin {"no_platforms_entry", "no_station_nodes_entry", "no_station_nodes_list"}
    /\ pc = "loop"
          => \A l \in tt.unique_lines :
                /\ l \in DOMAIN tt.unique_platforms
                /\ l \in DOMAIN tt.station_nodes
                /\ Len(tt.station_nodes[l]) = 2

C27_Witness ==
    /\ pc = "loop" /\ frame = "drawn"
    /\ app.tab_index = 1
    /\ kind = "hit" /\ lookups = 3
    /\ Cardinality(tt.unique_lines) = 2
    /\ tt.arrivals /= <<>>

-----------------------------------------------------------------------------
\* C28: every cache entry has a stopPoint that is present.  The step that takes in
\* a search response whose first match is null aborts and leaves the cache without
\* an entry for the name, and no hit ever stops on the unwrap of the cached
\* stopPoint (which it would do before sending its request).
C28_CachedStopPointPresent ==
    [][/\ \A n \in DOMAIN app'.stop_cache : app'.stop_cache[n].stop_point /= None
       /\ ~(kind' = "hit" /\ requests' = <<>>)
       /\ (pc = "search" /\ resp'.ok /\ resp'.body /= <<>> /\ resp'.body[1] = None)
             => /\ pc' = "panicked"
                /\ app'.stop_cache = app.stop_cache
                /\ app'.this_station_name \notin DOMAIN app'.stop_cache
      ]_vars

C28_Witness ==
    /\ pc = "panicked" /\ kind = "miss" /\ lookups = 2
    /\ resp.kind = "search" /\ resp.ok /\ resp.body /= <<>> /\ resp.body[1] = None
    /\ name \notin DOMAIN cache
    /\ \E n \in DOMAIN cache : cache[n].stop_point /= None

-----------------------------------------------------------------------------
\* C29: tab_index is always an index of tab_titles, 0 or 1, so no draw ends in the
\* unreachable branch of ui; next and previous wrap around (next of the last tab
\* is the first, previous of the first is the last) and undo each other.
C29_TabIndexValid ==
    /\ app.tab_index \in 0..(Len(app.tab_titles) - 1)
    /\ app.tab_index \in {0, 1}
    /\ frame /= "unreachable"
    /\ app.tab_index = Len(app.tab_titles) - 1 => next(app).tab_index = 0
    /\ app.tab_index = 0 => previous(app).tab_index = Len(app.tab_titles) - 1
    /\ previous(next(app)) = app
    /\ next(previous(app)) = app

C29_Witness ==
    /\ pc = "loop" /\ frame = "drawn"
    /\ app.input_mode = "Normal"
    /\ app.tab_index = 1
    /\ lookups = 0
    /\ next(app).tab_index = 0

====
